---- MODULE Spec2Model ----
(***************************************************************************)
(* BrainDump: the daily-quota stored procedures over the profiles table,   *)
(* the categorization gateway (process-brain-dump edge function and its    *)
(* client wrapper processWithAI) and the dump store (brain_dumps).         *)
(***************************************************************************)
EXTENDS Integers, Sequences, FiniteSets, TLC

(* ---------------------------------------------------------------------- *)
(* Bounds of the model                                                     *)
(* ---------------------------------------------------------------------- *)
MaxDay == 2
MaxCount == 11
MaxRows == 3
MaxSubmits == 2

(* ---------------------------------------------------------------------- *)
(* Program constants.  NULL stands for SQL NULL in a date or id column;    *)
(* dates are day numbers and SubscriptionPeriod is the one billing month   *)
(* that verification adds, counted in the model's dates.                   *)
(* ---------------------------------------------------------------------- *)
MAX_FREE_DUMPS == 10
UNLIMITED == -1
NULL == -2
SubscriptionPeriod == 1

Users == {"u1", "u2"}
RemoteStatuses == {"ACTIVE", "CANCELLED", "APPROVAL_PENDING"}

Sessions == {"s1", "s2"}
Texts == {"buy milk", "call mom"}

VARIABLES today, profiles, lastOp, lastCheck, incs, brain_dumps, sess, submits,
          nextId, lastCall, creator, view, events, ui

tableVars == <<today, profiles>>
historyVars == <<lastOp, lastCheck, incs>>
quotaVars == <<today, profiles, lastOp, lastCheck, incs>>
storeVars == <<brain_dumps, sess, submits, nextId>>
restVars == <<lastCall, creator, view, events, ui>>
vars == <<today, profiles, lastOp, lastCheck, incs, brain_dumps, sess, submits,
          nextId, lastCall, creator, view, events, ui>>

(* ---------------------------------------------------------------------- *)
(* profiles table: one row per user_id, columns with their defaults        *)
(* ---------------------------------------------------------------------- *)
ProfileDefaults ==
    [subscription_status |-> "free",
     subscription_end |-> NULL,
     paypal_subscription_id |-> NULL,
     last_dump_date |-> NULL,
     daily_dump_count |-> 0]

HasRow(P, u) == u \in DOMAIN P

InsertRow(P, u, row) == [x \in DOMAIN P \cup {u} |-> IF x = u THEN row ELSE P[x]]

(* Faulty variant: a reset that moves the date and keeps the counter *)
reset_keep_count(P, d) ==
    [x \in DOMAIN P |->
        IF P[x].last_dump_date = NULL \/ P[x].last_dump_date < d
        THEN [P[x] EXCEPT !.last_dump_date = d]
        ELSE P[x]]

(* UPDATE profiles SET daily_dump_count = 0, last_dump_date = CURRENT_DATE  *)
(* WHERE last_dump_date < CURRENT_DATE OR last_dump_date IS NULL            *)
reset_daily_dump_count(P, d) ==
    [x \in DOMAIN P |->
        IF P[x].last_dump_date = NULL \/ P[x].last_dump_date < d
        THEN [P[x] EXCEPT !.daily_dump_count = 0, !.last_dump_date = d]
        ELSE P[x]]

(* Faulty variant: remaining_dumps computed without the ELSE branch *)
limit_result_no_clamp(P, u, d) ==
    IF ~HasRow(P, u)
    THEN [can_dump |-> TRUE, remaining_dumps |-> MAX_FREE_DUMPS]
    ELSE IF P[u].subscription_status = "premium"
    THEN [can_dump |-> TRUE, remaining_dumps |-> UNLIMITED]
    ELSE IF P[u].last_dump_date = d
    THEN [can_dump |-> P[u].daily_dump_count < MAX_FREE_DUMPS,
          remaining_dumps |-> MAX_FREE_DUMPS - P[u].daily_dump_count]
    ELSE [can_dump |-> TRUE, remaining_dumps |-> MAX_FREE_DUMPS]

(* Faulty variant: the counter is tested before the premium status *)
limit_result_premium_last(P, u, d) ==
    IF ~HasRow(P, u)
    THEN [can_dump |-> TRUE, remaining_dumps |-> MAX_FREE_DUMPS]
    ELSE IF P[u].last_dump_date = d /\ P[u].daily_dump_count >= MAX_FREE_DUMPS
    THEN [can_dump |-> FALSE, remaining_dumps |-> 0]
    ELSE IF P[u].subscription_status = "premium"
    THEN [can_dump |-> TRUE, remaining_dumps |-> UNLIMITED]
    ELSE IF P[u].last_dump_date = d
    THEN [can_dump |-> TRUE,
          remaining_dumps |-> MAX_FREE_DUMPS - P[u].daily_dump_count]
    ELSE [can_dump |-> TRUE, remaining_dumps |-> MAX_FREE_DUMPS]

(* The decision of check_daily_limit on the table as it is after the reset *)
(* step: the IF / ELSIF chain and the returned jsonb object, which has the *)
(* keys can_dump and remaining_dumps.                                      *)
limit_result(P, u, d) ==
    IF ~HasRow(P, u)
    THEN [can_dump |-> TRUE, remaining_dumps |-> MAX_FREE_DUMPS]
    ELSE IF P[u].subscription_status = "premium"
    THEN [can_dump |-> TRUE, remaining_dumps |-> UNLIMITED]
    ELSE IF P[u].last_dump_date = d
    THEN IF P[u].daily_dump_count < MAX_FREE_DUMPS
         THEN [can_dump |-> TRUE,
               remaining_dumps |-> MAX_FREE_DUMPS - P[u].daily_dump_count]
         ELSE [can_dump |-> FALSE, remaining_dumps |-> 0]
    ELSE [can_dump |-> TRUE, remaining_dumps |-> MAX_FREE_DUMPS]

(* UPDATE ... SET daily_dump_count = CASE WHEN last_dump_date = CURRENT_DATE *)
(* THEN daily_dump_count + 1 ELSE 1 END, last_dump_date = CURRENT_DATE       *)
(* WHERE user_id = p_user_id                                                 *)
bump_count(P, u, d) ==
    [x \in DOMAIN P |->
        IF x = u
        THEN [P[x] EXCEPT
                !.daily_dump_count =
                    IF P[x].last_dump_date = d THEN P[x].daily_dump_count + 1 ELSE 1,
                !.last_dump_date = d]
        ELSE P[x]]

(* Faulty variant: the check of the first revision, which also counted *)
check_writes_incrementing(P, u, d) ==
    LET R == reset_daily_dump_count(P, d)
        C == IF HasRow(R, u)
             THEN R
             ELSE InsertRow(R, u, ProfileDefaults)
        res == limit_result(R, u, d)
    IN IF res.can_dump /\ res.remaining_dumps # UNLIMITED
       THEN bump_count(C, u, d)
       ELSE C

(* The profiles table after check_daily_limit(p_user_id): the reset step,  *)
(* then the INSERT of the NOT FOUND branch.                                *)
check_writes(P, u, d) ==
    LET R == reset_daily_dump_count(P, d)
    IN IF HasRow(R, u)
       THEN R
       ELSE InsertRow(R, u, [ProfileDefaults EXCEPT
                                !.daily_dump_count = 0, !.last_dump_date = NULL])

(* Faulty variant: increment_daily_dump without its INSERT *)
increment_writes_no_insert(P, u, d) ==
    bump_count(reset_daily_dump_count(P, d), u, d)

(* The profiles table after increment_daily_dump(p_user_id): the reset     *)
(* step, the UPDATE, then the INSERT ... WHERE NOT EXISTS.                 *)
increment_writes(P, u, d) ==
    LET R == bump_count(reset_daily_dump_count(P, d), u, d)
    IN IF HasRow(R, u)
       THEN R
       ELSE InsertRow(R, u, [ProfileDefaults EXCEPT
                                !.daily_dump_count = 1, !.last_dump_date = d])

(* Faulty variant: a status other than ACTIVE keeps the stored end date *)
verify_writes_keep_end(P, u, remote, sid, d) ==
    LET status == IF remote = "ACTIVE" THEN "premium" ELSE "free"
        old == IF HasRow(P, u) THEN P[u] ELSE ProfileDefaults
        end == IF remote = "ACTIVE" THEN d + SubscriptionPeriod ELSE old.subscription_end
    IN InsertRow(P, u, [old EXCEPT !.subscription_status = status,
                                   !.subscription_end = end,
                                   !.paypal_subscription_id = sid])

(* verify-paypal-subscription: the mapping of the remote status and the   *)
(* upsert on user_id (columns not named keep their value or default).      *)
verify_writes(P, u, remote, sid, d) ==
    LET status == IF remote = "ACTIVE" THEN "premium" ELSE "free"
        end == IF remote = "ACTIVE" THEN d + SubscriptionPeriod ELSE NULL
        old == IF HasRow(P, u) THEN P[u] ELSE ProfileDefaults
    IN InsertRow(P, u, [old EXCEPT !.subscription_status = status,
                                   !.subscription_end = end,
                                   !.paypal_subscription_id = sid])

(* ---------------------------------------------------------------------- *)
(* History of the last direct call of a stored procedure: its name, its user, the table and the date    *)
(* it started from and, for a check, the jsonb result.  lastCheck[u] holds *)
(* the result of u's latest check while nothing has happened since that    *)
(* could change it (an increment or a verification for u, a new date), and *)
(* whether that check repeated an earlier one; incs[u] counts the          *)
(* increment_daily_dump calls for u on the current date.                   *)
(* ---------------------------------------------------------------------- *)
NoResult == [can_dump |-> FALSE, remaining_dumps |-> 0]

Op(name, u, res) ==
    [op |-> name, user |-> u, pre |-> profiles, day |-> today, res |-> res,
     arg |-> "none"]


(* ---------------------------------------------------------------------- *)
(* Categorization gateway                                                  *)
(* ---------------------------------------------------------------------- *)
Undefined == "<undefined>"
JsNull == "<null>"

(* An item of the JSON contract; a key that is absent holds Undefined.     *)
Item(c, r, p) ==
    [category |-> c, refinedText |-> r, priority |-> p,
     has_tags |-> FALSE, tags |-> <<>>]

(* JSON values the completion content can parse to *)
JNull == [kind |-> "null", has_items |-> FALSE, items |-> <<>>]
JString == [kind |-> "string", has_items |-> FALSE, items |-> <<>>]
JObjectNoItems == [kind |-> "object", has_items |-> FALSE, items |-> <<>>]
JObject(items) == [kind |-> "object", has_items |-> TRUE, items |-> items]

ITask == Item("task", "refined", "high")
IIdea == Item("idea", "refined", Undefined)
IEmptyCategory == Item("", "refined", "low")
INoCategory == Item(Undefined, "refined", "low")
INullCategory == Item(JsNull, "refined", "low")

ItemLists ==
    {<<>>, <<ITask>>, <<IEmptyCategory>>, <<INoCategory>>, <<INullCategory>>,
     <<ITask, IIdea>>, <<IIdea, IEmptyCategory>>}

JsonValues == {JNull, JString, JObjectNoItems} \cup {JObject(l) : l \in ItemLists}

(* The completion content as a sequence of tokens: a ``` fence, a complete *)
(* JSON text, or text that is no JSON.                                     *)
Tok(t, v) == [t |-> t, v |-> v]
Fence == Tok("fence", JNull)
Junk == Tok("junk", JNull)
Json(v) == Tok("json", v)

ValidContents ==
    {<<Json(v)>> : v \in JsonValues} \cup {<<Fence, Json(v), Fence>> : v \in JsonValues}

MalformedContents ==
    {<<>>, <<Junk>>, <<Fence>>, <<Fence, Junk, Fence>>, <<Json(JObject(<<ITask>>)), Junk>>,
     <<Fence, Fence, Json(JObject(<<ITask>>)), Fence>>}

Contents == ValidContents \cup MalformedContents

(* content.trim().replace(/^```(json)?\s*/, '').replace(/\s*```$/, '') *)
StripFences(c) ==
    LET a == IF Len(c) > 0 /\ c[1].t = "fence" THEN Tail(c) ELSE c
    IN IF Len(a) > 0 /\ a[Len(a)].t = "fence" THEN SubSeq(a, 1, Len(a) - 1) ELSE a

(* JSON.parse succeeds on exactly one complete JSON text *)
JsonParses(c) == Len(c) = 1 /\ c[1].t = "json"

(* What the edge function meets: the API key, the upstream call, the       *)
(* completion content; and whether the invocation itself reaches it.       *)
Env(k, up, c, f) == [has_key |-> k, upstream |-> up, content |-> c, invoke_fails |-> f]

EndpointBehaviours ==
    {Env(FALSE, "ok", <<>>, FALSE), Env(TRUE, "ok", <<>>, TRUE)}
    \cup {Env(TRUE, up, <<>>, FALSE) : up \in {"http_error", "network_error"}}
    \cup {Env(TRUE, "ok", c, FALSE) : c \in Contents}

CauseOf(e) ==
    IF e.invoke_fails THEN "invoke_error"
    ELSE IF ~e.has_key THEN "no_key"
    ELSE IF e.upstream # "ok" THEN "upstream_error"
    ELSE IF e.content \in MalformedContents THEN "unparseable"
    ELSE "parsed"

(* Faulty variant: a fallback item that loses the text *)
EdgeFallback_empty_text(text) == Item("note", "", "medium")

(* { category: 'note', refinedText: text, priority: 'medium' } *)
EdgeFallback(text) == Item("note", text, "medium")

(* process-brain-dump: the response for body {text} *)
process_brain_dump(text, e) ==
    IF ~e.has_key
    THEN [status |-> 500, body |-> JObject(<<EdgeFallback(text)>>)]
    ELSE IF e.upstream # "ok"
    THEN [status |-> 500, body |-> JObject(<<EdgeFallback(text)>>)]
    ELSE LET clean == StripFences(e.content)
         IN IF JsonParses(clean)
            THEN [status |-> 200, body |-> clean[1].v]
            ELSE [status |-> 200, body |-> JObject(<<EdgeFallback(text)>>)]

(* [{ ...DEFAULT_AI_RESULT, refinedText: text }] *)
DEFAULT_AI_RESULT(text) ==
    <<[category |-> "note", refinedText |-> text, priority |-> "medium",
       has_tags |-> TRUE, tags |-> <<>>]>>

(* processWithAI: invoke, `if (error) throw error`,                        *)
(* `return data.items || [...]`, and the catch.                            *)
processWithAI(text, e) ==
    LET r == process_brain_dump(text, e)
    IN IF e.invoke_fails \/ r.status # 200
       THEN DEFAULT_AI_RESULT(text)
       ELSE IF r.body.kind = "null"
       THEN DEFAULT_AI_RESULT(text)
       ELSE IF r.body.has_items
       THEN r.body.items
       ELSE DEFAULT_AI_RESULT(text)

(* ---------------------------------------------------------------------- *)
(* Dump store                                                              *)
(* ---------------------------------------------------------------------- *)
(* items.map(item => ({user_id, text, category, completed, tags})) *)
InsertData(items, userId) ==
    [i \in 1..Len(items) |->
        [user_id |-> userId,
         text |-> items[i].refinedText,
         category |-> items[i].category,
         completed |-> FALSE]]

(* brain_dumps: text TEXT NOT NULL, category TEXT NOT NULL DEFAULT 'note'.  *)
(* A key that is absent from a row of a bulk insert is either filled with   *)
(* the column default or sent as NULL, depending on the client library.     *)
ColumnValue(v, default, useDefault) ==
    IF v = Undefined THEN (IF useDefault THEN default ELSE JsNull) ELSE v

RowAccepted(r, useDefault) ==
    /\ ColumnValue(r.text, JsNull, useDefault) # JsNull
    /\ ColumnValue(r.category, "note", useDefault) # JsNull

(* Faulty variant: every row of one insert is given the same id *)
StoredRows_same_id(data, firstId, useDefault) ==
    {[id |-> firstId,
      user_id |-> data[i].user_id,
      text |-> data[i].text,
      category |-> ColumnValue(data[i].category, "note", useDefault),
      completed |-> data[i].completed] : i \in 1..Len(data)}

StoredRows(data, firstId, useDefault) ==
    {[id |-> firstId + i - 1,
      user_id |-> data[i].user_id,
      text |-> data[i].text,
      category |-> ColumnValue(data[i].category, "note", useDefault),
      completed |-> data[i].completed] : i \in 1..Len(data)}

(* id UUID DEFAULT gen_random_uuid(): a value no earlier row has had; the   *)
(* model hands out 1, 2, 3, ... and never reuses the id of a deleted row.   *)
NextId == nextId

NoCall == [op |-> "none"]

(* A write request of a page: none is in flight *)
NoRequest == [kind |-> "none"]

(* The state of a page that shows dumps: its list, its load (idle, ok or   *)
(* error while the select is in flight, done), the rows of the answer, the *)
(* write request in flight, the last toast, whether a rejection escaped,   *)
(* the total of AnalyticsPage, the last realtime event handled with        *)
(* whether the list held its id, and whether a request of the page was     *)
(* answered with an error.                                                 *)
NoView ==
    [page |-> "none", list |-> <<>>, load |-> "idle", snapshot |-> <<>>,
     pending |-> NoRequest, toast |-> "none", unhandled |-> FALSE,
     totalDumps |-> 0, lastEvent |-> [type |-> "none", held |-> FALSE],
     failed |-> FALSE]

(* The forms and the payment page: none is open *)
NoUi == [page |-> "none"]

(* ---------------------------------------------------------------------- *)
(* Client sessions running handleSubmit                                    *)
(* ---------------------------------------------------------------------- *)
SessionUser(s) == IF s = "s1" THEN "u1" ELSE "u2"

(* pc: the await the handler is at; subscription_status: the hook's state  *)
(* as of its last fetchSubscription; isPremium: the value the running      *)
(* handler captured.                                                       *)
(* saved: the ids of the rows the running handler has inserted; trace: the *)
(* service calls the running handler has completed, in order.              *)
(* user: the user signed in; accepted: the batches of this session whose   *)
(* rows were inserted.                                                     *)
IdleSession ==
    [pc |-> "idle", text |-> "", items |-> <<>>, cause |-> "none",
     subscription_status |-> "free", isPremium |-> FALSE,
     saved |-> {}, trace |-> <<>>, user |-> "none", accepted |-> 0]

(* supabase.auth.getUser() in the session *)
Submitter(s) == sess[s].user

(* What a session keeps when no handler runs *)
Kept(s) == [IdleSession EXCEPT !.user = sess[s].user, !.accepted = sess[s].accepted]

(* fetchSubscription: the row's subscription_status, 'free' without a row *)
fetchSubscription(P, u) ==
    IF HasRow(P, u) THEN P[u].subscription_status ELSE "free"

InitRest ==
    /\ lastCall = NoCall
    /\ creator = <<>>
    /\ view = [s \in Sessions |-> NoView]
    /\ events = [s \in Sessions |-> <<>>]
    /\ ui = NoUi

Init ==
    /\ today = 0
    /\ profiles = <<>>
    /\ lastOp = [op |-> "none", user |-> "u1", pre |-> <<>>, day |-> 0, res |-> NoResult,
                 arg |-> "none"]
    /\ lastCheck = [u \in Users |-> <<>>]
    /\ incs = [u \in Users |-> 0]
    /\ brain_dumps = {}
    /\ sess = [s \in Sessions |-> IdleSession]
    /\ submits = 0
    /\ nextId = 1
    /\ InitRest

(* ---------------------------------------------------------------------- *)
(* The stored procedures and the edge function as calls                    *)
(* ---------------------------------------------------------------------- *)
rpc_check_daily_limit(u) ==
    /\ profiles' = check_writes(profiles, u, today)
    /\ UNCHANGED today

rpc_increment_daily_dump(u) ==
    /\ profiles' = increment_writes(profiles, u, today)
    /\ UNCHANGED today

(* supabase.rpc('check_daily_limit', {p_user_id}) *)
CheckDailyLimit(u) ==
    LET res == limit_result(reset_daily_dump_count(profiles, today), u, today)
    IN /\ rpc_check_daily_limit(u)
       /\ lastOp' = Op("check", u, res)
       /\ lastCheck' = [lastCheck EXCEPT
                            ![u] = <<[res |-> res, repeated |-> lastCheck[u] # <<>>]>>]
       /\ UNCHANGED incs
       /\ UNCHANGED storeVars
       /\ UNCHANGED restVars

(* All increment_daily_dump calls on the current date *)
IncsToday == incs["u1"] + incs["u2"]

(* supabase.rpc('increment_daily_dump', {p_user_id}) *)
IncrementDailyDump(u) ==
    /\ IncsToday < MaxCount
    /\ rpc_increment_daily_dump(u)
    /\ lastOp' = Op("increment", u, NoResult)
    /\ lastCheck' = [lastCheck EXCEPT ![u] = <<>>]
    /\ incs' = [incs EXCEPT ![u] = @ + 1]
    /\ UNCHANGED storeVars
    /\ UNCHANGED restVars

(* verify-paypal-subscription for user u, the provider answering `remote`  *)
VerifySubscription(u, remote) ==
    /\ profiles' = verify_writes(profiles, u, remote, 1, today)
    /\ lastOp' = [Op("verify", u, NoResult) EXCEPT !.arg = remote]
    /\ lastCheck' = [lastCheck EXCEPT ![u] = <<>>]
    /\ UNCHANGED <<today, incs>>
    /\ UNCHANGED storeVars
    /\ UNCHANGED restVars

(* CURRENT_DATE advances *)
Tick ==
    /\ today < MaxDay
    /\ today' = today + 1
    /\ lastOp' = Op("tick", "u1", NoResult)
    /\ lastCheck' = [u \in Users |-> <<>>]
    /\ incs' = [u \in Users |-> 0]
    /\ UNCHANGED profiles
    /\ UNCHANGED storeVars
    /\ UNCHANGED restVars

Next ==
    \/ \E u \in Users : CheckDailyLimit(u)
    \/ \E u \in Users : IncrementDailyDump(u)
    \/ \E u \in Users, r \in RemoteStatuses : VerifySubscription(u, r)
    \/ Tick

Spec == Init /\ [][Next]_vars

(* ---------------------------------------------------------------------- *)
(* handleSubmit(text), one await at a time                                 *)
(* ---------------------------------------------------------------------- *)
(* The handler has returned: the session is idle again and keeps only the  *)
(* hook's state.                                                           *)
Ended(s) ==
    [sess EXCEPT ![s] =
        [Kept(s) EXCEPT !.subscription_status = sess[s].subscription_status]]

(* Faulty variant: the rows are inserted before the gateway is called *)
NextStep_insert_first(pc) ==
    CASE pc = "check" -> "save"
      [] pc = "save" -> "process"
      [] pc = "process" -> "increment"
      [] pc = "increment" -> "usage"

(* Faulty variant: the counter is never advanced *)
IncrementCalls_never(isPremium, items) == 0

(* Faulty variant: one increment_daily_dump call per item *)
IncrementCalls_per_item(isPremium, items) == IF isPremium THEN 0 ELSE Len(items)

(* The awaits of handleSubmit in program order: checkDumpLimit,            *)
(* processWithAI, saveBrainDumps, incrementDailyDumpCount, loadUsageInfo.  *)
NextStep(pc) ==
    CASE pc = "check" -> "process"
      [] pc = "process" -> "save"
      [] pc = "save" -> "increment"
      [] pc = "increment" -> "usage"

(* BrainDumpInput calls onSubmit(input.trim()) for a non-blank input; the  *)
(* handler captures isPremium of the current render.                       *)
SubmitStart(s, text) ==
    /\ sess[s].pc = "idle"
    /\ submits < MaxSubmits
    /\ Cardinality(brain_dumps) + 2 <= MaxRows
    /\ submits' = submits + 1
    /\ sess' = [sess EXCEPT ![s] =
            [Kept(s) EXCEPT !.pc = "check", !.text = text,
                                !.subscription_status = sess[s].subscription_status,
                                !.isPremium = (sess[s].subscription_status = "premium")]]
    /\ UNCHANGED <<quotaVars, brain_dumps, nextId>>
    /\ UNCHANGED restVars

(* const limitCheck = await checkDumpLimit(); if (!limitCheck.can_dump) return *)
SubmitCheck(s) ==
    /\ sess[s].pc = "check"
    /\ \/ /\ rpc_check_daily_limit(Submitter(s))
          /\ UNCHANGED historyVars
          /\ LET res == limit_result(reset_daily_dump_count(profiles, today),
                                     Submitter(s), today)
                 sub == fetchSubscription(profiles', Submitter(s))
             IN sess' = [sess EXCEPT ![s] =
                    IF res.can_dump
                    THEN [@ EXCEPT !.pc = NextStep("check"), !.subscription_status = sub,
                                   !.trace = Append(@, "check_daily_limit")]
                    ELSE [Kept(s) EXCEPT !.subscription_status = sub]]
       \/ /\ sess' = Ended(s)
          /\ UNCHANGED quotaVars
    /\ UNCHANGED <<brain_dumps, submits, nextId>>
    /\ UNCHANGED restVars

(* const processedItems = await processWithAI(text) *)
SubmitProcess(s, e) ==
    /\ sess[s].pc = "process"
    /\ sess' = [sess EXCEPT ![s].pc = NextStep("process"),
                            ![s].items = processWithAI(sess[s].text, e),
                            ![s].cause = CauseOf(e),
                            ![s].trace = Append(@, "process-brain-dump")]
    /\ UNCHANGED <<quotaVars, brain_dumps, submits, nextId>>
    /\ UNCHANGED restVars

(* await saveBrainDumps(processedItems, user.id); an error throws to the   *)
(* catch of handleSubmit.                                                  *)
SubmitSave(s, storageError, useDefault) ==
    /\ sess[s].pc = "save"
    /\ LET data == InsertData(sess[s].items, Submitter(s))
           ok == ~storageError /\ \A i \in 1..Len(data) : RowAccepted(data[i], useDefault)
       IN IF ok
          THEN /\ brain_dumps' = brain_dumps \cup StoredRows(data, NextId, useDefault)
               /\ nextId' = nextId + Len(data)
               /\ sess' = [sess EXCEPT
                       ![s].pc = NextStep("save"),
                       ![s].saved = {r.id : r \in StoredRows(data, NextId, useDefault)},
                       ![s].accepted = @ + 1,
                       ![s].trace = Append(@, "insert")]
          ELSE /\ brain_dumps' = brain_dumps
               /\ nextId' = nextId
               /\ sess' = Ended(s)
    /\ UNCHANGED <<quotaVars, submits>>
    /\ UNCHANGED restVars

(* The increment_daily_dump calls of one handleSubmit whose insert was     *)
(* accepted: if (!isPremium) await incrementDailyDumpCount(user.id)        *)
IncrementCalls(isPremium, items) == IF isPremium THEN 0 ELSE 1

(* The profiles table after n calls of increment_daily_dump(u) *)
RECURSIVE Incremented(_, _, _, _)
Incremented(P, u, d, n) ==
    IF n = 0 THEN P ELSE Incremented(increment_writes(P, u, d), u, d, n - 1)

(* if (!isPremium) await incrementDailyDumpCount(user.id) *)
SubmitIncrement(s) ==
    /\ sess[s].pc = "increment"
    /\ LET n == IncrementCalls(sess[s].isPremium, sess[s].items)
       IN /\ profiles' = Incremented(profiles, Submitter(s), today, n)
          /\ sess' = [sess EXCEPT
                  ![s].pc = NextStep("increment"),
                  ![s].trace = @ \o [i \in 1..n |-> "increment_daily_dump"]]
    /\ UNCHANGED <<today, historyVars>>
    /\ UNCHANGED <<brain_dumps, submits, nextId>>
    /\ UNCHANGED restVars

(* await loadUsageInfo(): checkDumpLimit once more, then the handler ends *)
SubmitUsage(s) ==
    /\ sess[s].pc = "usage"
    /\ \/ /\ rpc_check_daily_limit(Submitter(s))
          /\ UNCHANGED historyVars
          /\ sess' = [sess EXCEPT ![s] =
                  [Kept(s) EXCEPT !.subscription_status =
                        fetchSubscription(profiles', Submitter(s))]]
       \/ /\ sess' = Ended(s)
          /\ UNCHANGED quotaVars
    /\ UNCHANGED <<brain_dumps, submits, nextId>>
    /\ UNCHANGED restVars

NextSubmit ==
    \/ \E s \in Sessions, t \in Texts : SubmitStart(s, t)
    \/ \E s \in Sessions : SubmitCheck(s)
    \/ \E s \in Sessions, e \in EndpointBehaviours : SubmitProcess(s, e)
    \/ \E s \in Sessions, se \in BOOLEAN, ud \in BOOLEAN : SubmitSave(s, se, ud)
    \/ \E s \in Sessions : SubmitIncrement(s)
    \/ \E s \in Sessions : SubmitUsage(s)

(* The dashboard is mounted (the first fetchSubscription is done) on a     *)
(* database where u1 has no profile row yet, is premium, or is a free user *)
(* one dump short of the daily limit.                                      *)
SubmitProfiles ==
    {<<>>,
     [u \in {"u1"} |-> [ProfileDefaults EXCEPT !.subscription_status = "premium",
                                               !.subscription_end = SubscriptionPeriod,
                                               !.paypal_subscription_id = 1]],
     [u \in {"u1"} |-> [ProfileDefaults EXCEPT !.daily_dump_count = MAX_FREE_DUMPS - 1,
                                               !.last_dump_date = 0]]}

(* s1 is a session of u1; s2 is another device of u1, or a session of u2 *)
SubmitUsers == {o \in [Sessions -> Users] : o["s1"] = "u1"}

InitSubmit ==
    /\ today = 0
    /\ profiles \in SubmitProfiles
    /\ lastOp = [op |-> "none", user |-> "u1", pre |-> <<>>, day |-> 0, res |-> NoResult,
                 arg |-> "none"]
    /\ lastCheck = [u \in Users |-> <<>>]
    /\ incs = [u \in Users |->
                 IF HasRow(profiles, u) THEN profiles[u].daily_dump_count ELSE 0]
    /\ brain_dumps = {}
    /\ \E o \in SubmitUsers :
          sess = [s \in Sessions |->
                    [IdleSession EXCEPT
                       !.user = o[s],
                       !.subscription_status = fetchSubscription(profiles, o[s])]]
    /\ submits = 0
    /\ nextId = 1
    /\ InitRest

SubmitSpec == InitSubmit /\ [][NextSubmit]_vars

(* ====================================================================== *)
(* brain_dumps behind row level security: the requests an authenticated   *)
(* user can send to the table                                              *)
(* ====================================================================== *)
MaxIds == 3

(* Faulty variant: the SELECT policy of profiles, USING (true) *)
SelectPolicy_true(uid, r) == TRUE

(* FOR SELECT USING (auth.uid() = user_id) *)
SelectPolicy(uid, r) == uid = r.user_id

(* FOR INSERT WITH CHECK (auth.uid() = user_id) *)
InsertCheck(uid, r) == uid = r.user_id

(* FOR UPDATE USING (auth.uid() = user_id): without a WITH CHECK clause    *)
(* the USING expression is also applied to the updated row.                *)
UpdatePolicy(uid, r) == uid = r.user_id

(* FOR DELETE USING (auth.uid() = user_id) *)
DeletePolicy(uid, r) == uid = r.user_id

(* The column assignments of an UPDATE request *)
Patches ==
    {[col |-> "completed", val |-> TRUE], [col |-> "text", val |-> "call mom"]}
        \cup {[col |-> "user_id", val |-> u] : u \in Users}

Patched(r, p) ==
    CASE p.col = "completed" -> [r EXCEPT !.completed = p.val]
      [] p.col = "text" -> [r EXCEPT !.text = p.val]
      [] p.col = "user_id" -> [r EXCEPT !.user_id = p.val]

(* select('*') as uid: the rows the SELECT policy lets through *)
SelectRows(uid, B) == {r \in B : SelectPolicy(uid, r)}

(* update(patch).eq('id', id) as uid: the rows the USING clause lets       *)
(* through are replaced; a new row that fails the check aborts the         *)
(* statement.                                                              *)
UpdateRows(uid, id, p, B) ==
    LET targets == {r \in B : r.id = id /\ UpdatePolicy(uid, r)}
        ok == \A r \in targets : UpdatePolicy(uid, Patched(r, p))
    IN IF ok
       THEN (B \ targets) \cup {Patched(r, p) : r \in targets}
       ELSE B

(* delete().eq('id', id) as uid *)
DeleteRows(uid, id, B) == B \ {r \in B : r.id = id /\ DeletePolicy(uid, r)}

Call(name, uid, id, rows) ==
    [op |-> name, user |-> uid, id |-> id, pre |-> brain_dumps, rows |-> rows]

(* insert({user_id, text, category, completed}) as uid *)
ApiInsert(uid, owner) ==
    LET r == [id |-> NextId, user_id |-> owner, text |-> "buy milk",
              category |-> "task", completed |-> FALSE]
    IN /\ nextId <= MaxIds
       /\ IF InsertCheck(uid, r)
          THEN /\ brain_dumps' = brain_dumps \cup {r}
               /\ nextId' = nextId + 1
               /\ creator' = [x \in DOMAIN creator \cup {r.id} |->
                                 IF x = r.id THEN uid ELSE creator[x]]
          ELSE UNCHANGED <<brain_dumps, nextId, creator>>
       /\ lastCall' = Call("insert", uid, NextId, {})
       /\ UNCHANGED <<ui, quotaVars, sess, submits, view, events>>

ApiSelect(uid) ==
    /\ lastCall' = Call("select", uid, 0, SelectRows(uid, brain_dumps))
    /\ UNCHANGED <<ui, quotaVars, storeVars, creator, view, events>>

ApiUpdate(uid, id, p) ==
    /\ brain_dumps' = UpdateRows(uid, id, p, brain_dumps)
    /\ lastCall' = Call("update", uid, id, {})
    /\ UNCHANGED <<ui, quotaVars, sess, submits, nextId, creator, view, events>>

ApiDelete(uid, id) ==
    /\ brain_dumps' = DeleteRows(uid, id, brain_dumps)
    /\ lastCall' = Call("delete", uid, id, {})
    /\ UNCHANGED <<ui, quotaVars, sess, submits, nextId, creator, view, events>>

NextStore ==
    \/ \E uid \in Users, owner \in Users : ApiInsert(uid, owner)
    \/ \E uid \in Users : ApiSelect(uid)
    \/ \E uid \in Users, id \in 1..MaxIds, p \in Patches : ApiUpdate(uid, id, p)
    \/ \E uid \in Users, id \in 1..MaxIds : ApiDelete(uid, id)

StoreSpec == Init /\ [][NextStore]_vars

(* ====================================================================== *)
(* create-paypal-subscription and verify-paypal-subscription               *)
(* ====================================================================== *)
MaxFaults == 2

(* The places where create-paypal-subscription can be refused: the PayPal  *)
(* credentials of its environment, the Authorization header, auth.getUser, *)
(* the email of the user, the four PayPal requests, and the link with rel  *)
(* 'approve' of the created subscription.                                  *)
CreateSteps ==
    {"credentials", "authorization header", "authentication", "email",
     "access token", "product", "plan", "subscription", "approval link"}

(* What one invocation meets: the steps that are refused *)
CreateEnvs == {f \in SUBSET CreateSteps : Cardinality(f) <= MaxFaults}

(* The ids PayPal gives the subscriptions it creates *)
SubscriptionIds == {1, 2}

CreateError(step) ==
    [status |-> 500, approval_url |-> FALSE, error |-> step,
     subscription_id |-> NULL, product_id |-> "none"]

(* Faulty variant: a refused plan request is passed over like a refused    *)
(* product request                                                         *)
create_paypal_subscription_plan_fallback(f, sid) ==
    IF "credentials" \in f THEN CreateError("credentials")
    ELSE IF "authorization header" \in f THEN CreateError("authorization header")
    ELSE IF "authentication" \in f THEN CreateError("authentication")
    ELSE IF "email" \in f THEN CreateError("email")
    ELSE IF "access token" \in f THEN CreateError("access token")
    ELSE IF "subscription" \in f THEN CreateError("subscription")
    ELSE IF "approval link" \in f THEN CreateError("approval link")
    ELSE [status |-> 200, approval_url |-> TRUE, error |-> "none",
          subscription_id |-> sid,
          product_id |-> IF "product" \in f THEN "BRAINDUMP_PREMIUM" ELSE "created"]

(* The response of the function: the first throw reaches the catch, which  *)
(* answers 500 {error}; a refused product request is not a throw but the   *)
(* default product id.                                                     *)
create_paypal_subscription(f, sid) ==
    IF "credentials" \in f THEN CreateError("credentials")
    ELSE IF "authorization header" \in f THEN CreateError("authorization header")
    ELSE IF "authentication" \in f THEN CreateError("authentication")
    ELSE IF "email" \in f THEN CreateError("email")
    ELSE IF "access token" \in f THEN CreateError("access token")
    ELSE IF "plan" \in f THEN CreateError("plan")
    ELSE IF "subscription" \in f THEN CreateError("subscription")
    ELSE IF "approval link" \in f THEN CreateError("approval link")
    ELSE [status |-> 200, approval_url |-> TRUE, error |-> "none",
          subscription_id |-> sid,
          product_id |-> IF "product" \in f THEN "BRAINDUMP_PREMIUM" ELSE "created"]

(* upsert({user_id, paypal_subscription_id, updated_at}, onConflict user_id) *)
create_writes(P, u, sid) ==
    LET old == IF HasRow(P, u) THEN P[u] ELSE ProfileDefaults
    IN InsertRow(P, u, [old EXCEPT !.paypal_subscription_id = sid])

(* supabase.functions.invoke('create-paypal-subscription') for user u *)
CreateSubscription(u, f, sid) ==
    LET res == create_paypal_subscription(f, sid)
    IN /\ profiles' = IF res.status = 200
                      THEN create_writes(profiles, u, sid)
                      ELSE profiles
       /\ lastCall' = [op |-> "create", user |-> u, env |-> f, res |-> res,
                       pre |-> profiles]
       /\ UNCHANGED <<ui, today, historyVars, storeVars, creator, view, events>>

(* The places where verify-paypal-subscription can be refused *)
VerifySteps ==
    {"subscription_id", "credentials", "authorization header", "authentication",
     "access token", "subscription"}

VerifyEnvs == {f \in SUBSET VerifySteps : Cardinality(f) <= MaxFaults}

VerifyError(step) ==
    [status |-> 500, success |-> FALSE, error |-> step,
     subscription_status |-> "none", subscription_end |-> NULL]

(* The response of verify-paypal-subscription *)
verify_paypal_subscription(f, remote, d) ==
    IF "subscription_id" \in f THEN VerifyError("subscription_id")
    ELSE IF "credentials" \in f THEN VerifyError("credentials")
    ELSE IF "authorization header" \in f THEN VerifyError("authorization header")
    ELSE IF "authentication" \in f THEN VerifyError("authentication")
    ELSE IF "access token" \in f THEN VerifyError("access token")
    ELSE IF "subscription" \in f THEN VerifyError("subscription")
    ELSE [status |-> 200, success |-> TRUE, error |-> "none",
          subscription_status |-> IF remote = "ACTIVE" THEN "premium" ELSE "free",
          subscription_end |-> IF remote = "ACTIVE" THEN d + SubscriptionPeriod ELSE NULL]

(* supabase.functions.invoke('verify-paypal-subscription', {subscription_id}) *)
(* for user u, PayPal reporting the status `remote` for the subscription      *)
VerifyCall(u, f, remote, sid) ==
    LET res == verify_paypal_subscription(f, remote, today)
    IN /\ profiles' = IF res.status = 200
                      THEN verify_writes(profiles, u, remote, sid, today)
                      ELSE profiles
       /\ lastCall' = [op |-> "verify", user |-> u, env |-> f, res |-> res,
                       pre |-> profiles]
       /\ UNCHANGED <<ui, today, historyVars, storeVars, creator, view, events>>

NextBilling ==
    \/ \E u \in Users, f \in CreateEnvs, sid \in SubscriptionIds :
            CreateSubscription(u, f, sid)
    \/ \E u \in Users, f \in VerifyEnvs, r \in RemoteStatuses, sid \in SubscriptionIds :
            VerifyCall(u, f, r, sid)

BillingSpec == Init /\ [][NextBilling]_vars

(* ====================================================================== *)
(* The pages that show the dumps: Index (the dashboard, with the realtime  *)
(* channel), DumpsPage and AnalyticsPage                                   *)
(* ====================================================================== *)
MaxDumps == 1
MaxEvents == 1

Pages == {"Index", "DumpsPage", "AnalyticsPage"}

(* The page has mounted useRealtimeBrainDumps *)
Subscribed(s) == view[s].page = "Index"

(* loadBrainDumps has a catch that shows a toast; loadDumps and loadStats  *)
(* are try / finally without a catch, so their `throw error` rejects the   *)
(* promise that the effect dropped.                                        *)
CatchesLoadError(page) == page = "Index"

(* The catch of a write handler: showErrorToast on Index, console.error    *)
(* alone on DumpsPage.                                                     *)
NotifiesWriteError(page) == page = "Index"

(* The write handlers of a page *)
WriteKinds(page) ==
    CASE page = "Index" -> {"toggle", "edit", "delete"}
      [] page = "DumpsPage" -> {"toggle", "delete"}
      [] OTHER -> {}

(* formattedDumps / newDump / updatedDump: the fields the client keeps *)
ClientDump(r) ==
    [id |-> r.id, text |-> r.text, category |-> r.category, completed |-> r.completed]

(* .order('created_at', {ascending: false}): ids are handed out in the     *)
(* order of creation.                                                      *)
RECURSIVE NewestFirst(_)
NewestFirst(S) ==
    IF S = {}
    THEN <<>>
    ELSE LET m == CHOOSE r \in S : \A q \in S : q.id <= r.id
         IN <<ClientDump(m)>> \o NewestFirst(S \ {m})

Ids(list) == {list[i].id : i \in DOMAIN list}

(* prev.filter(d => d.id !== id) *)
RECURSIVE Without(_, _)
Without(list, id) ==
    IF list = <<>>
    THEN <<>>
    ELSE IF Head(list).id = id
    THEN Without(Tail(list), id)
    ELSE <<Head(list)>> \o Without(Tail(list), id)

(* Faulty variant: the new dump is prepended without the test for its id *)
handleRealtimeInsert_no_exists(list, dump) == <<dump>> \o list

(* prev.some(d => d.id === dump.id) ? prev : [dump, ...prev] *)
handleRealtimeInsert(list, dump) ==
    IF dump.id \in Ids(list) THEN list ELSE <<dump>> \o list

(* prev.map(d => (d.id === dump.id ? dump : d)) *)
handleRealtimeUpdate(list, dump) ==
    [i \in DOMAIN list |-> IF list[i].id = dump.id THEN dump ELSE list[i]]

handleRealtimeDelete(list, id) == Without(list, id)

(* The state updates of the write handlers after a response without error *)
ApplyWrite(list, req) ==
    CASE req.kind = "toggle" ->
            [i \in DOMAIN list |->
                IF list[i].id = req.id
                THEN [list[i] EXCEPT !.completed = ~list[i].completed]
                ELSE list[i]]
      [] req.kind = "edit" ->
            [i \in DOMAIN list |->
                IF list[i].id = req.id
                THEN [list[i] EXCEPT !.text = req.val]
                ELSE list[i]]
      [] req.kind = "delete" -> Without(list, req.id)

(* A page that has just mounted: empty list, its load effect not yet run *)
Mounted(page) == [NoView EXCEPT !.page = page]

(* postgres_changes reach the subscribed sessions of the owner of the row *)
Published(evs, owner) ==
    [s \in Sessions |->
        IF Subscribed(s) /\ SessionUser(s) = owner
        THEN events[s] \o evs
        ELSE events[s]]

RoomForEvents == \A s \in Sessions : Len(events[s]) < MaxEvents

(* The events of an update or delete of the row with the id, B being the   *)
(* table before and A the table after the statement.                       *)
ChangeEvents(B, A, id) ==
    IF \E r \in A \ B : r.id = id
    THEN <<[type |-> "UPDATE", dump |-> ClientDump(CHOOSE r \in A \ B : r.id = id)]>>
    ELSE IF \E r \in B \ A : r.id = id
    THEN <<[type |-> "DELETE", id |-> id]>>
    ELSE <<>>

(* The table after the statement of a write request *)
Written(uid, req, B) ==
    CASE req.kind = "toggle" ->
            UpdateRows(uid, req.id, [col |-> "completed", val |-> req.val], B)
      [] req.kind = "edit" ->
            UpdateRows(uid, req.id, [col |-> "text", val |-> req.val], B)
      [] req.kind = "delete" -> DeleteRows(uid, req.id, B)

(* The effect of the page runs loadBrainDumps / loadDumps / loadStats: the *)
(* select is answered with the rows of that moment or with an error.       *)
LoadSend(s, err) ==
    /\ view[s].page \in Pages
    /\ view[s].load = "idle"
    /\ view' = [view EXCEPT
            ![s].load = IF err THEN "error" ELSE "ok",
            ![s].failed = @ \/ err,
            ![s].snapshot =
                IF err THEN <<>> ELSE NewestFirst(SelectRows(SessionUser(s), brain_dumps))]
    /\ UNCHANGED <<ui, quotaVars, storeVars, lastCall, creator, events>>

(* The await of the select returns *)
LoadReceive(s) ==
    /\ view[s].load \in {"ok", "error"}
    /\ view' = [view EXCEPT ![s] =
            IF view[s].load = "ok"
            THEN IF @.page = "AnalyticsPage"
                 THEN [@ EXCEPT !.load = "done", !.snapshot = <<>>,
                                !.totalDumps = Len(view[s].snapshot)]
                 ELSE [@ EXCEPT !.load = "done", !.snapshot = <<>>,
                                !.list = view[s].snapshot]
            ELSE IF CatchesLoadError(@.page)
                 THEN [@ EXCEPT !.load = "done", !.toast = "error"]
                 ELSE [@ EXCEPT !.load = "done", !.unhandled = TRUE]]
    /\ UNCHANGED <<ui, quotaVars, storeVars, lastCall, creator, events>>

(* The channel hands the next event to its callback *)
Deliver(s) ==
    /\ events[s] # <<>>
    /\ LET ev == Head(events[s])
           id == IF ev.type = "DELETE" THEN ev.id ELSE ev.dump.id
       IN view' = [view EXCEPT
               ![s].list =
                   CASE ev.type = "INSERT" -> handleRealtimeInsert(@, ev.dump)
                     [] ev.type = "UPDATE" -> handleRealtimeUpdate(@, ev.dump)
                     [] ev.type = "DELETE" -> handleRealtimeDelete(@, ev.id),
               ![s].lastEvent = [type |-> ev.type, held |-> id \in Ids(view[s].list)]]
    /\ events' = [events EXCEPT ![s] = Tail(@)]
    /\ UNCHANGED <<ui, quotaVars, storeVars, lastCall, creator>>

(* handleToggleComplete / handleEdit / handleDelete up to their await: the *)
(* request is sent for a dump of the local list and the table answers      *)
(* with or without an error.                                               *)
WriteSend(s, kind, id, err) ==
    /\ kind \in WriteKinds(view[s].page)
    /\ view[s].pending = NoRequest
    /\ id \in Ids(view[s].list)
    /\ RoomForEvents
    /\ LET d == CHOOSE x \in {view[s].list[i] : i \in DOMAIN view[s].list} : x.id = id
           req == [kind |-> kind, id |-> id, ok |-> ~err,
                   val |-> CASE kind = "toggle" -> ~d.completed
                             [] kind = "edit" -> "call mom"
                             [] kind = "delete" -> FALSE]
           after == IF err THEN brain_dumps
                    ELSE Written(SessionUser(s), req, brain_dumps)
       IN /\ brain_dumps' = after
          /\ events' = Published(ChangeEvents(brain_dumps, after, id), SessionUser(s))
          /\ view' = [view EXCEPT ![s].pending = req, ![s].failed = @ \/ err]
    /\ UNCHANGED <<ui, quotaVars, sess, submits, nextId, lastCall, creator>>

(* The rest of the write handler, after its await *)
WriteReceive(s) ==
    /\ view[s].pending # NoRequest
    /\ LET req == view[s].pending
           page == view[s].page
       IN view' = [view EXCEPT ![s] =
               IF req.ok
               THEN [@ EXCEPT !.pending = NoRequest,
                              !.list = ApplyWrite(@, req),
                              !.toast = IF page = "Index" /\ req.kind \in {"edit", "delete"}
                                        THEN "info" ELSE @]
               ELSE [@ EXCEPT !.pending = NoRequest,
                              !.toast = IF NotifiesWriteError(page) THEN "error" ELSE @]]
    /\ UNCHANGED <<ui, quotaVars, storeVars, lastCall, creator, events>>

(* A submission of the user, from this page or another device, stores a row *)
RemoteInsert(u) ==
    /\ \E s \in Sessions : view[s].page \in Pages /\ SessionUser(s) = u
    /\ nextId <= MaxDumps
    /\ RoomForEvents
    /\ LET r == [id |-> NextId, user_id |-> u, text |-> "buy milk",
                 category |-> "task", completed |-> FALSE]
       IN /\ brain_dumps' = brain_dumps \cup {r}
          /\ events' = Published(<<[type |-> "INSERT", dump |-> ClientDump(r)]>>, u)
    /\ nextId' = nextId + 1
    /\ UNCHANGED <<ui, quotaVars, sess, submits, lastCall, creator, view>>

(* Another device of the user completes or deletes a row *)
RemoteWrite(u, kind, id) ==
    /\ RoomForEvents
    /\ \E r \in brain_dumps : r.id = id /\ r.user_id = u
    /\ LET req == [kind |-> kind, id |-> id, val |-> TRUE]
           after == Written(u, req, brain_dumps)
       IN /\ brain_dumps' = after
          /\ events' = Published(ChangeEvents(brain_dumps, after, id), u)
    /\ UNCHANGED <<ui, quotaVars, sess, submits, nextId, lastCall, creator, view>>

NextClient ==
    \/ \E s \in Sessions, err \in BOOLEAN : LoadSend(s, err)
    \/ \E s \in Sessions : LoadReceive(s)
    \/ \E s \in Sessions : Deliver(s)
    \/ \E s \in Sessions, k \in {"toggle", "edit", "delete"},
          id \in 1..MaxDumps, err \in BOOLEAN : WriteSend(s, k, id, err)
    \/ \E s \in Sessions : WriteReceive(s)
    \/ \E u \in Users : RemoteInsert(u)
    \/ \E u \in Users, k \in {"toggle", "delete"}, id \in 1..MaxDumps :
            RemoteWrite(u, k, id)

(* One page is open, in the session of u1 *)
InitClient ==
    /\ today = 0
    /\ profiles = <<>>
    /\ lastOp = [op |-> "none", user |-> "u1", pre |-> <<>>, day |-> 0, res |-> NoResult,
                 arg |-> "none"]
    /\ lastCheck = [u \in Users |-> <<>>]
    /\ incs = [u \in Users |-> 0]
    /\ brain_dumps = {}
    /\ sess = [s \in Sessions |-> IdleSession]
    /\ submits = 0
    /\ nextId = 1
    /\ lastCall = NoCall
    /\ creator = <<>>
    /\ \E p \in Pages : view = [s \in Sessions |-> IF s = "s1" THEN Mounted(p) ELSE NoView]
    /\ events = [s \in Sessions |-> <<>>]
    /\ ui = NoUi

ClientSpec == InitClient /\ [][NextClient]_vars

(* ====================================================================== *)
(* The payment-success page (PaymentSuccess), mounted under ProtectedRoute *)
(* ====================================================================== *)
MaxTime == 4
MaxEffects == 2

(* PAYMENT_VERIFICATION_DELAY = 3000 ms, in seconds *)
PAYMENT_VERIFICATION_DELAY == 3

(* The query string: each of SUBSCRIPTION_PARAM_KEYS is absent or holds a  *)
(* subscription id                                                         *)
Urls == [subscription_id : {NULL, 1}, token : {NULL, 2}]

NoResponse ==
    [status |-> 0, success |-> FALSE, error |-> "none",
     subscription_status |-> "none", subscription_end |-> NULL]

(* The page as first rendered for the signed-in user: ProtectedRoute       *)
(* renders it only once auth has loaded with a user.                       *)
(* now: the clock; mountedAt: when the page first had a user and the url;  *)
(* effects: the runs of the verification effect; timers: the pending       *)
(* timeouts with their setTimeout time; calls, calledAt: the invocations   *)
(* of verifyPayPalSubscription and the time of the last one; skipped: the  *)
(* timeouts that returned at the hasVerifiedRef guard.                     *)
PaymentPage(url) ==
    [page |-> "PaymentSuccess", mounted |-> TRUE, user |-> "u1",
     authLoading |-> FALSE, url |-> url, now |-> 0, mountedAt |-> 0,
     verificationState |-> "verifying", hasVerifiedRef |-> FALSE,
     verificationTimeoutRef |-> 0, timers |-> {}, effects |-> 0,
     calls |-> 0, calledAt |-> 0, skipped |-> 0,
     request |-> "none", subscriptionId |-> NULL, response |-> NoResponse,
     subscription_status |-> "free", toast |-> "none"]

getSubscriptionId(url) ==
    IF url.subscription_id # NULL THEN url.subscription_id
    ELSE IF url.token # NULL THEN url.token
    ELSE NULL

shouldAttemptVerification(p) ==
    /\ ~p.hasVerifiedRef
    /\ ~p.authLoading
    /\ p.user # "none"
    /\ getSubscriptionId(p.url) # NULL

(* verificationTimeoutRef.current = setTimeout(verifyPayment, DELAY): the  *)
(* timeout an earlier run set is not cleared                               *)
scheduleVerification(p) ==
    [p EXCEPT !.timers = @ \cup {[id |-> p.effects + 1, at |-> p.now]},
              !.verificationTimeoutRef = p.effects + 1]

(* verifyPayment without the hasVerifiedRef guard *)
verifyPayment_unguarded(p) ==
    [p EXCEPT !.hasVerifiedRef = TRUE,
              !.request = "inflight",
              !.subscriptionId = getSubscriptionId(p.url),
              !.calls = @ + 1,
              !.calledAt = p.now]

(* verifyPayment, up to the await of verifyPayPalSubscription. The url and *)
(* the user are those of the render that set the timeout; both stay the    *)
(* same while the page is mounted.                                         *)
verifyPayment(p) ==
    IF p.hasVerifiedRef THEN [p EXCEPT !.skipped = @ + 1]
    ELSE LET q == [p EXCEPT !.hasVerifiedRef = TRUE]
             subscriptionId == getSubscriptionId(p.url)
         IN IF subscriptionId = NULL
            THEN [q EXCEPT !.toast = "Verification Error",
                           !.verificationState = "failed"]
            ELSE IF p.user = "none"
            THEN [q EXCEPT !.toast = "Authentication Required",
                           !.mounted = FALSE]
            ELSE [q EXCEPT !.request = "inflight",
                           !.subscriptionId = subscriptionId,
                           !.calls = @ + 1,
                           !.calledAt = p.now]

(* verifyPayPalSubscription (and fetchSubscription after it) catch every   *)
(* error, show a toast and return: the promise is never rejected           *)
verifyPayPalSubscriptionRejects(res) == FALSE

(* Optimistic UX: assume success *)
handleVerificationWarning(p) ==
    [p EXCEPT !.toast = "Payment Processing", !.verificationState = "success"]

(* executeVerification from the answer on; a state update of an unmounted  *)
(* page is dropped                                                         *)
executeVerification(p, res, status) ==
    LET q == [p EXCEPT !.request = "done",
                       !.response = res,
                       !.subscription_status = status,
                       !.toast = IF res.status # 200
                                 THEN "Failed to verify subscription" ELSE @]
    IN IF ~p.mounted THEN q
       ELSE IF verifyPayPalSubscriptionRejects(res) THEN handleVerificationWarning(q)
       ELSE [q EXCEPT !.verificationState = "success"]

(* The verification effect runs: after the first render, and again when    *)
(* the user object or the search params are replaced                       *)
VerificationEffect ==
    /\ ui.mounted
    /\ ui.effects < MaxEffects
    /\ ui' = [(IF shouldAttemptVerification(ui)
               THEN scheduleVerification(ui) ELSE ui) EXCEPT !.effects = @ + 1]
    /\ UNCHANGED <<quotaVars, storeVars, lastCall, creator, view, events>>

PaymentTick ==
    /\ ui.now < MaxTime
    /\ ui' = [ui EXCEPT !.now = @ + 1]
    /\ UNCHANGED <<quotaVars, storeVars, lastCall, creator, view, events>>

(* A timeout fires, its delay having passed *)
TimerFire(t) ==
    /\ t \in ui.timers
    /\ ui.now >= t.at + PAYMENT_VERIFICATION_DELAY
    /\ ui' = verifyPayment([ui EXCEPT !.timers = @ \ {t}])
    /\ UNCHANGED <<quotaVars, storeVars, lastCall, creator, view, events>>

(* verify-paypal-subscription answers the page's request *)
VerifyReturn(f, remote) ==
    /\ ui.request = "inflight"
    /\ LET res == verify_paypal_subscription(f, remote, today)
           P == IF res.status = 200
                THEN verify_writes(profiles, ui.user, remote, ui.subscriptionId, today)
                ELSE profiles
       IN /\ profiles' = P
          /\ lastCall' = [op |-> "verify", user |-> ui.user, env |-> f, res |-> res,
                          pre |-> profiles]
          /\ ui' = executeVerification(ui, res, fetchSubscription(P, ui.user))
    /\ UNCHANGED <<today, historyVars, storeVars, creator, view, events>>

(* The user leaves the page: the cleanup clears the last timeout set *)
PaymentUnmount ==
    /\ ui.mounted
    /\ ui' = [ui EXCEPT !.mounted = FALSE,
                        !.timers = {t \in @ : t.id # ui.verificationTimeoutRef}]
    /\ UNCHANGED <<quotaVars, storeVars, lastCall, creator, view, events>>

NextPayment ==
    \/ VerificationEffect
    \/ PaymentTick
    \/ \E t \in ui.timers : TimerFire(t)
    \/ \E f \in VerifyEnvs, r \in RemoteStatuses : VerifyReturn(f, r)
    \/ PaymentUnmount

(* The user comes back from the approval page, createSubscription having   *)
(* stored subscription 1 on their profile                                  *)
InitPayment ==
    /\ today = 0
    /\ profiles = create_writes(<<>>, "u1", 1)
    /\ lastOp = [op |-> "none", user |-> "u1", pre |-> <<>>, day |-> 0, res |-> NoResult,
                 arg |-> "none"]
    /\ lastCheck = [u \in Users |-> <<>>]
    /\ incs = [u \in Users |-> 0]
    /\ brain_dumps = {}
    /\ sess = [s \in Sessions |-> IdleSession]
    /\ submits = 0
    /\ nextId = 1
    /\ lastCall = NoCall
    /\ creator = <<>>
    /\ view = [s \in Sessions |-> NoView]
    /\ events = [s \in Sessions |-> <<>>]
    /\ \E url \in Urls : ui = PaymentPage(url)

PaymentSpec == InitPayment /\ [][NextPayment]_vars

(* ====================================================================== *)
(* The forms: the text box of the dashboard (BrainDumpInput) and the       *)
(* sign-up page (Signup)                                                   *)
(* ====================================================================== *)
MaxInput == 3

(* A text is a sequence of characters *)
Chars == {" ", "a"}
Whitespace == {" "}
Inputs == UNION {[1..n -> Chars] : n \in 0..MaxInput}
Passwords == {"", "pw1", "pw2"}

RECURSIVE trimStart(_)
trimStart(s) ==
    IF s # <<>> /\ Head(s) \in Whitespace THEN trimStart(Tail(s)) ELSE s

RECURSIVE trimEnd(_)
trimEnd(s) ==
    IF s # <<>> /\ s[Len(s)] \in Whitespace
    THEN trimEnd(SubSeq(s, 1, Len(s) - 1)) ELSE s

(* String.prototype.trim *)
trim(s) == trimEnd(trimStart(s))

(* A string is truthy unless it is empty *)
Truthy(s) == s # <<>>

NoInvocation == [called |-> FALSE]

(* BrainDumpInput: input, the isAuthenticated prop, and the last call of   *)
(* onSubmit; Signup: the fields of the form, the last toast and the last   *)
(* call of signUp with what the form held                                  *)
Forms(isAuthenticated) ==
    [page |-> "forms", input |-> <<>>, isAuthenticated |-> isAuthenticated,
     onSubmit |-> NoInvocation,
     password |-> "", confirm |-> "", accepted |-> FALSE,
     toast |-> "none", signUp |-> NoInvocation]

(* handleSubmit testing input instead of input.trim() *)
BrainDumpInput_handleSubmit_no_trim(f) ==
    IF Truthy(f.input) /\ f.isAuthenticated
    THEN [f EXCEPT !.onSubmit = [called |-> TRUE, text |-> trim(f.input)],
                   !.input = <<>>]
    ELSE f

(* BrainDumpInput.handleSubmit *)
BrainDumpInput_handleSubmit(f) ==
    IF Truthy(trim(f.input)) /\ f.isAuthenticated
    THEN [f EXCEPT !.onSubmit = [called |-> TRUE, text |-> trim(f.input)],
                   !.input = <<>>]
    ELSE f

(* Signup.handleSignUp; error: signUp answered with an error *)
handleSignUp(f, error) ==
    IF ~f.accepted THEN [f EXCEPT !.toast = "Terms Required"]
    ELSE IF f.password # f.confirm THEN [f EXCEPT !.toast = "Password mismatch"]
    ELSE [f EXCEPT !.signUp = [called |-> TRUE, password |-> f.password,
                               confirm |-> f.confirm, accepted |-> f.accepted],
                   !.toast = IF error THEN "Sign-up failed" ELSE "Account created"]

(* setInput: typing, or the transcription of a recording *)
SetInput(text) ==
    /\ ui' = [ui EXCEPT !.input = text]
    /\ UNCHANGED <<quotaVars, storeVars, lastCall, creator, view, events>>

(* The Process button or Ctrl+Enter *)
ClickSubmit ==
    /\ ui' = BrainDumpInput_handleSubmit(ui)
    /\ UNCHANGED <<quotaVars, storeVars, lastCall, creator, view, events>>

SetPassword(p) ==
    /\ ui' = [ui EXCEPT !.password = p]
    /\ UNCHANGED <<quotaVars, storeVars, lastCall, creator, view, events>>

SetConfirm(p) ==
    /\ ui' = [ui EXCEPT !.confirm = p]
    /\ UNCHANGED <<quotaVars, storeVars, lastCall, creator, view, events>>

SetAccepted(b) ==
    /\ ui' = [ui EXCEPT !.accepted = b]
    /\ UNCHANGED <<quotaVars, storeVars, lastCall, creator, view, events>>

(* The sign-up form is submitted *)
SubmitSignUp(error) ==
    /\ ui' = handleSignUp(ui, error)
    /\ UNCHANGED <<quotaVars, storeVars, lastCall, creator, view, events>>

NextForm ==
    \/ \E text \in Inputs : SetInput(text)
    \/ ClickSubmit
    \/ \E p \in Passwords : SetPassword(p)
    \/ \E p \in Passwords : SetConfirm(p)
    \/ \E b \in BOOLEAN : SetAccepted(b)
    \/ \E error \in BOOLEAN : SubmitSignUp(error)

InitForm ==
    /\ today = 0
    /\ profiles = <<>>
    /\ lastOp = [op |-> "none", user |-> "u1", pre |-> <<>>, day |-> 0, res |-> NoResult,
                 arg |-> "none"]
    /\ lastCheck = [u \in Users |-> <<>>]
    /\ incs = [u \in Users |-> 0]
    /\ brain_dumps = {}
    /\ sess = [s \in Sessions |-> IdleSession]
    /\ submits = 0
    /\ nextId = 1
    /\ lastCall = NoCall
    /\ creator = <<>>
    /\ view = [s \in Sessions |-> NoView]
    /\ events = [s \in Sessions |-> <<>>]
    /\ \E a \in BOOLEAN : ui = Forms(a)

FormSpec == InitForm /\ [][NextForm]_vars

(* ====================================================================== *)
(* What a signed-in user can do to the profiles table: the stored          *)
(* procedures, the two edge functions, the profile dialog, and requests to *)
(* the table itself under its row policies                                 *)
(* ====================================================================== *)
MaxBumps == 1

(* "Users can update their own profile": USING (auth.uid() = user_id), for *)
(* every column                                                            *)
ProfilesUpdatePolicy(uid, user_id) == uid = user_id

(* "Users can insert their own profile": WITH CHECK (auth.uid() = user_id) *)
ProfilesInsertCheck(uid, user_id) == uid = user_id

(* The column values a request sets *)
ProfilePatches ==
    {"subscription_status = 'premium'", "subscription_status = 'free'",
     "daily_dump_count = 0"}

PatchedProfile(row, p) ==
    CASE p = "subscription_status = 'premium'" ->
            [row EXCEPT !.subscription_status = "premium"]
      [] p = "subscription_status = 'free'" ->
            [row EXCEPT !.subscription_status = "free"]
      [] p = "daily_dump_count = 0" ->
            [row EXCEPT !.daily_dump_count = 0]

(* from('profiles').update(p).eq('user_id', target) as uid *)
UpdateProfiles(P, uid, target, p) ==
    IF HasRow(P, target) /\ ProfilesUpdatePolicy(uid, target)
    THEN [P EXCEPT ![target] = PatchedProfile(@, p)]
    ELSE P

(* from('profiles').insert({user_id: target, ...p}) as uid *)
InsertProfiles(P, uid, target, p) ==
    IF ~HasRow(P, target) /\ ProfilesInsertCheck(uid, target)
    THEN InsertRow(P, target, PatchedProfile(ProfileDefaults, p))
    ELSE P

(* saveProfile: upsert({user_id, display_name}) on the primary key, which  *)
(* inserts a row with the defaults or fails on the unique user_id          *)
saveProfile(P, u) ==
    IF HasRow(P, u) THEN P ELSE InsertRow(P, u, ProfileDefaults)

Request(name, u, pre) ==
    [op |-> name, user |-> u, env |-> {}, res |-> NoResponse, pre |-> pre]

(* rpc('check_daily_limit'), rpc('increment_daily_dump') and               *)
(* rpc('reset_daily_dump_count') *)
RpcCall(u, name) ==
    /\ (name = "increment_daily_dump" /\ HasRow(profiles, u)) =>
            profiles[u].daily_dump_count < MaxBumps
    /\ profiles' = CASE name = "check_daily_limit" -> check_writes(profiles, u, today)
                     [] name = "increment_daily_dump" -> increment_writes(profiles, u, today)
                     [] name = "reset_daily_dump_count" ->
                            reset_daily_dump_count(profiles, today)
    /\ lastCall' = Request(name, u, profiles)
    /\ UNCHANGED <<today, historyVars, storeVars, creator, view, events, ui>>

SaveProfile(u) ==
    /\ profiles' = saveProfile(profiles, u)
    /\ lastCall' = Request("saveProfile", u, profiles)
    /\ UNCHANGED <<today, historyVars, storeVars, creator, view, events, ui>>

DirectUpdate(uid, target, p) ==
    /\ profiles' = UpdateProfiles(profiles, uid, target, p)
    /\ lastCall' = Request("update", uid, profiles)
    /\ UNCHANGED <<today, historyVars, storeVars, creator, view, events, ui>>

DirectInsert(uid, target, p) ==
    /\ profiles' = InsertProfiles(profiles, uid, target, p)
    /\ lastCall' = Request("insert", uid, profiles)
    /\ UNCHANGED <<today, historyVars, storeVars, creator, view, events, ui>>

(* The date changes *)
NextDay ==
    /\ today < MaxDay
    /\ today' = today + 1
    /\ UNCHANGED <<profiles, historyVars, storeVars, restVars>>

RpcNames == {"check_daily_limit", "increment_daily_dump", "reset_daily_dump_count"}

(* u1 is the user who sends the requests; u2 is another user's profile *)
ProfileActors == {"u1"}

NextProfile ==
    \/ \E u \in ProfileActors, name \in RpcNames : RpcCall(u, name)
    \/ \E u \in ProfileActors, sid \in SubscriptionIds : CreateSubscription(u, {}, sid)
    \/ \E u \in ProfileActors, r \in RemoteStatuses, sid \in SubscriptionIds :
            VerifyCall(u, {}, r, sid)
    \/ \E u \in ProfileActors : SaveProfile(u)
    \/ \E uid \in ProfileActors, target \in Users, p \in ProfilePatches :
            DirectUpdate(uid, target, p)
    \/ \E uid \in ProfileActors, target \in Users, p \in ProfilePatches :
            DirectInsert(uid, target, p)
    \/ NextDay

InitProfile ==
    /\ today = 0
    /\ profiles = InsertRow(<<>>, "u2", ProfileDefaults)
    /\ lastOp = [op |-> "none", user |-> "u1", pre |-> <<>>, day |-> 0, res |-> NoResult,
                 arg |-> "none"]
    /\ lastCheck = [u \in Users |-> <<>>]
    /\ incs = [u \in Users |-> 0]
    /\ brain_dumps = {}
    /\ sess = [s \in Sessions |-> IdleSession]
    /\ submits = 0
    /\ nextId = 1
    /\ InitRest

ProfileSpec == InitProfile /\ [][NextProfile]_vars

(* ====================================================================== *)
(* Properties                                                              *)
(* ====================================================================== *)
CheckDone == lastOp.op = "check"
PreRow(u) == lastOp.pre[u]
PreHasRow(u) == HasRow(lastOp.pre, u)
PreFree(u) == ~PreHasRow(u) \/ PreRow(u).subscription_status = "free"

(* The counter that counts on date d: a counter of another date is stale *)
EffectiveCount(P, u, d) ==
    IF HasRow(P, u) /\ P[u].last_dump_date = d THEN P[u].daily_dump_count ELSE 0

Max0(n) == IF n < 0 THEN 0 ELSE n

(* C1, as stated: after check_daily_limit(u) the stored daily_dump_count   *)
(* of u's profile equals its value before the call.                        *)
C1_CheckKeepsStoredCounter ==
    (CheckDone /\ PreHasRow(lastOp.user))
        => profiles[lastOp.user].daily_dump_count = PreRow(lastOp.user).daily_dump_count

(* C1, amended: check_daily_limit never consumes quota.  For every profile *)
(* the counter that counts for the current date is the same after the call *)
(* as before, a counter dated today is stored unchanged, and the only      *)
(* change to a stored counter is the reset of a stale one to 0.            *)
C1_CheckNeverConsumesQuota ==
    CheckDone =>
        \A u \in Users :
            /\ EffectiveCount(profiles, u, lastOp.day) = EffectiveCount(lastOp.pre, u, lastOp.day)
            /\ PreHasRow(u) =>
                /\ HasRow(profiles, u)
                /\ profiles[u].daily_dump_count =
                     IF PreRow(u).last_dump_date = lastOp.day
                     THEN PreRow(u).daily_dump_count
                     ELSE 0

C1_Witness ==
    /\ CheckDone
    /\ PreHasRow(lastOp.user)
    /\ PreRow(lastOp.user).last_dump_date # NULL
    /\ PreRow(lastOp.user).last_dump_date < lastOp.day
    /\ PreRow(lastOp.user).daily_dump_count >= 1
    /\ profiles[lastOp.user].daily_dump_count = 0
    /\ profiles[lastOp.user].last_dump_date = lastOp.day

(* C2: checks of one user that follow each other with no increment or     *)
(* other change for that user in between (the first of them possibly the   *)
(* one that creates the profile row) all return the same can_dump and the  *)
(* same remaining_dumps.                                                   *)
C2_RepeatedCheckSameResult ==
    [][\A u \in Users :
          (lastCheck[u] # <<>> /\ lastCheck'[u] # <<>>)
              => /\ lastCheck'[u][1].res.can_dump = lastCheck[u][1].res.can_dump
                 /\ lastCheck'[u][1].res.remaining_dumps = lastCheck[u][1].res.remaining_dumps]_vars

C2_Witness ==
    /\ CheckDone
    /\ lastCheck[lastOp.user] # <<>>
    /\ lastCheck[lastOp.user][1].repeated
    /\ PreHasRow(lastOp.user)
    /\ PreRow(lastOp.user).subscription_status = "free"
    /\ PreRow(lastOp.user).last_dump_date = NULL

(* C3: for a free user the check reports can_dump = (today's counter <     *)
(* limit) and remaining_dumps = max(0, limit - today's counter), today's   *)
(* counter being the number of increment_daily_dump calls on this date;    *)
(* from the limit-th increment on it reports FALSE and 0, never less.      *)
C3_FreeLimitClamped ==
    (CheckDone /\ PreFree(lastOp.user)) =>
        LET c == EffectiveCount(lastOp.pre, lastOp.user, lastOp.day)
        IN /\ c = incs[lastOp.user]
           /\ lastOp.res.can_dump = (c < MAX_FREE_DUMPS)
           /\ lastOp.res.remaining_dumps = Max0(MAX_FREE_DUMPS - c)
           /\ incs[lastOp.user] >= MAX_FREE_DUMPS =>
                (~lastOp.res.can_dump /\ lastOp.res.remaining_dumps = 0)

C3_Witness ==
    /\ CheckDone
    /\ PreFree(lastOp.user)
    /\ incs[lastOp.user] = MAX_FREE_DUMPS + 1
    /\ ~lastOp.res.can_dump
    /\ lastOp.res.remaining_dumps = 0

(* C4: a check of a free profile whose last_dump_date is before the        *)
(* current date returns can_dump = TRUE and remaining_dumps = the full     *)
(* limit, whatever its counter; no caller has a reset operation to invoke. *)
C4_DateRollover ==
    (/\ CheckDone
     /\ PreHasRow(lastOp.user)
     /\ PreRow(lastOp.user).subscription_status = "free"
     /\ PreRow(lastOp.user).last_dump_date # NULL
     /\ PreRow(lastOp.user).last_dump_date < lastOp.day)
        => /\ lastOp.res.can_dump
           /\ lastOp.res.remaining_dumps = MAX_FREE_DUMPS

C4_Witness ==
    /\ CheckDone
    /\ PreHasRow(lastOp.user)
    /\ PreRow(lastOp.user).subscription_status = "free"
    /\ PreRow(lastOp.user).last_dump_date = lastOp.day - 1
    /\ PreRow(lastOp.user).daily_dump_count = MAX_FREE_DUMPS
    /\ lastOp.res.remaining_dumps = MAX_FREE_DUMPS

(* C5: a check of a profile whose subscription_status is premium returns   *)
(* can_dump = TRUE and remaining_dumps = -1, whatever the counter and      *)
(* last_dump_date.                                                         *)
C5_PremiumUnlimited ==
    (CheckDone /\ PreHasRow(lastOp.user)
        /\ PreRow(lastOp.user).subscription_status = "premium")
        => /\ lastOp.res.can_dump
           /\ lastOp.res.remaining_dumps = -1

C5_Witness ==
    /\ CheckDone
    /\ PreHasRow(lastOp.user)
    /\ PreRow(lastOp.user).subscription_status = "premium"
    /\ PreRow(lastOp.user).last_dump_date = lastOp.day
    /\ PreRow(lastOp.user).daily_dump_count >= MAX_FREE_DUMPS
    /\ lastOp.res.remaining_dumps = -1

(* C6: every check_daily_limit result carries can_dump, remaining_dumps    *)
(* and is_premium, is_premium being TRUE exactly for a premium profile.    *)
C6_ResultHasIsPremium ==
    CheckDone =>
        /\ {"can_dump", "remaining_dumps", "is_premium"} \subseteq DOMAIN lastOp.res
        /\ lastOp.res.is_premium =
             (HasRow(profiles, lastOp.user)
                /\ profiles[lastOp.user].subscription_status = "premium")

(* C7: increment_daily_dump(u) leaves u's profile with last_dump_date =    *)
(* today and with counter + 1 if the row was dated today, 1 otherwise; a   *)
(* missing row is created with counter 1; nothing else of the row changes. *)
C7_IncrementEffect ==
    lastOp.op = "increment" =>
        LET u == lastOp.user
            old == IF PreHasRow(u) THEN PreRow(u) ELSE ProfileDefaults
        IN /\ HasRow(profiles, u)
           /\ profiles[u] =
                [old EXCEPT
                    !.last_dump_date = lastOp.day,
                    !.daily_dump_count =
                        IF PreHasRow(u) /\ old.last_dump_date = lastOp.day
                        THEN old.daily_dump_count + 1
                        ELSE 1]

C7_Witness ==
    /\ lastOp.op = "increment"
    /\ ~PreHasRow(lastOp.user)
    /\ \E v \in Users :
          /\ PreHasRow(v)
          /\ PreRow(v).last_dump_date # NULL
          /\ PreRow(v).last_dump_date < lastOp.day

(* C8: when the completion content is no JSON, the upstream call fails or  *)
(* no API key is configured, processWithAI(T) gives handleSubmit exactly   *)
(* one item, with category "note", refinedText T and priority "medium".    *)
C8_FallbackSingleNote ==
    \A s \in Sessions :
        (sess[s].pc = "save" /\ sess[s].cause \in {"unparseable", "upstream_error", "no_key"})
            => /\ Len(sess[s].items) = 1
               /\ sess[s].items[1].category = "note"
               /\ sess[s].items[1].refinedText = sess[s].text
               /\ sess[s].items[1].priority = "medium"

C8_Witness ==
    \E s \in Sessions :
        /\ sess[s].pc = "save"
        /\ sess[s].cause = "unparseable"
        /\ sess[s].text = "buy milk"
        /\ Len(sess[s].items) = 1
        /\ sess[s].items[1].refinedText = "buy milk"

(* C9: whatever the completion endpoint answers, handleSubmit receives at  *)
(* least one item from processWithAI.                                      *)
C9_AtLeastOneItem ==
    \A s \in Sessions : sess[s].pc = "save" => Len(sess[s].items) >= 1

(* C10: every row of brain_dumps has a non-empty category. *)
C10_CategoryNeverEmpty ==
    \A r \in brain_dumps : r.category \notin {"", Undefined, JsNull}

(* The rows of brain_dumps that carry the id *)
RowsWithId(id) == {r \in brain_dumps : r.id = id}

(* The handler of s has had its insert accepted *)
InsertAccepted(s) == sess[s].pc \in {"increment", "usage"}

(* C11: a submission whose insert of the k items of the gateway was        *)
(* accepted has stored exactly k rows: k ids, each carried by one row      *)
(* whose user_id is the submitting user, none of them an id of a row of    *)
(* another submission.                                                     *)
C11_MultiItemSplit ==
    \A s \in Sessions :
        InsertAccepted(s) =>
            /\ Cardinality(sess[s].saved) = Len(sess[s].items)
            /\ \A id \in sess[s].saved :
                /\ Cardinality(RowsWithId(id)) = 1
                /\ \A r \in RowsWithId(id) : r.user_id = Submitter(s)
            /\ \A t \in Sessions \ {s} : sess[t].saved \cap sess[s].saved = {}

C11_Witness ==
    \E s \in Sessions :
        /\ InsertAccepted(s)
        /\ Len(sess[s].items) = 2
        /\ Cardinality(sess[s].saved) = 2
        /\ Cardinality({r \in brain_dumps : r.id \in sess[s].saved}) = 2

Calls(tr, call) == Cardinality({i \in DOMAIN tr : tr[i] = call})

(* C14, as stated: every submission whose rows were inserted has called    *)
(* increment_daily_dump exactly once by the time the handler refreshes the *)
(* usage display.                                                          *)
C14_IncrementOncePerBatch ==
    \A s \in Sessions :
        sess[s].pc = "usage" => Calls(sess[s].trace, "increment_daily_dump") = 1

(* C14, amended: a submission whose rows were inserted calls               *)
(* increment_daily_dump once, whatever the number of items, when the       *)
(* handler's isPremium is false, and not at all when it is true; the call  *)
(* comes after the gateway has returned and the insert was accepted, and a *)
(* submission that has not got that far has made no such call.             *)
C14_IncrementOnceUnlessPremium ==
    \A s \in Sessions :
        LET n == Calls(sess[s].trace, "increment_daily_dump")
        IN /\ sess[s].pc = "usage" => n = (IF sess[s].isPremium THEN 0 ELSE 1)
           /\ sess[s].pc # "usage" => n = 0
           /\ n >= 1 =>
                /\ Calls(sess[s].trace, "process-brain-dump") = 1
                /\ Calls(sess[s].trace, "insert") = 1
                /\ sess[s].trace[Len(sess[s].trace)] = "increment_daily_dump"

C14_Witness ==
    \E s \in Sessions :
        /\ sess[s].pc = "usage"
        /\ ~sess[s].isPremium
        /\ Len(sess[s].items) = 2
        /\ Cardinality(sess[s].saved) = 2
        /\ Calls(sess[s].trace, "increment_daily_dump") = 1
        /\ profiles[Submitter(s)].daily_dump_count = 1

QuotaCalls == {"check_daily_limit", "increment_daily_dump"}

(* Every occurrence of a call of B in the trace has a call of A before it *)
Preceded(tr, A, B) ==
    \A j \in DOMAIN tr : tr[j] \in B => \E i \in 1..(j - 1) : tr[i] \in A

(* The calls of one completed handleSubmit in program order *)
SubmitOrder(isPremium) ==
    <<"check_daily_limit", "process-brain-dump", "insert">>
        \o (IF isPremium THEN <<>> ELSE <<"increment_daily_dump">>)

IsPrefix(a, b) == Len(a) <= Len(b) /\ \A i \in DOMAIN a : a[i] = b[i]

(* C15, as stated: within one submission the gateway returns before any    *)
(* quota call is made, and a quota call is made before the rows are        *)
(* inserted.                                                               *)
C15_GatewayQuotaInsert ==
    \A s \in Sessions :
        /\ Preceded(sess[s].trace, {"process-brain-dump"}, QuotaCalls)
        /\ Preceded(sess[s].trace, QuotaCalls, {"insert"})
        /\ Preceded(sess[s].trace, {"process-brain-dump"}, {"insert"})

(* C15, amended: within one submission check_daily_limit is called first,  *)
(* then the gateway, then the insert of the rows, and increment_daily_dump *)
(* last, for a handler whose isPremium is false; no step is taken before   *)
(* the one ahead of it has completed.                                      *)
C15_CheckGatewayInsertIncrement ==
    \A s \in Sessions :
        /\ IsPrefix(sess[s].trace, SubmitOrder(sess[s].isPremium))
        /\ sess[s].pc = "usage" => sess[s].trace = SubmitOrder(sess[s].isPremium)
        /\ sess[s].pc = "increment" => Len(sess[s].trace) = 3
        /\ sess[s].pc = "save" => Len(sess[s].trace) = 2
        /\ sess[s].pc = "process" => Len(sess[s].trace) = 1

C15_Witness ==
    \E s \in Sessions :
        /\ sess[s].pc = "usage"
        /\ sess[s].trace = <<"check_daily_limit", "process-brain-dump", "insert",
                             "increment_daily_dump">>
        /\ sess[s].saved # {}

(* C16: a check for a profile whose subscription_status is premium and     *)
(* whose subscription_end is earlier than the current date answers as for  *)
(* a free user with the same counter.                                      *)
C16_ExpiredPremiumTreatedAsFree ==
    (CheckDone /\ PreHasRow(lastOp.user)
        /\ PreRow(lastOp.user).subscription_status = "premium"
        /\ PreRow(lastOp.user).subscription_end # NULL
        /\ PreRow(lastOp.user).subscription_end < lastOp.day)
        => LET c == EffectiveCount(lastOp.pre, lastOp.user, lastOp.day)
           IN /\ lastOp.res.can_dump = (c < MAX_FREE_DUMPS)
              /\ lastOp.res.remaining_dumps = Max0(MAX_FREE_DUMPS - c)

(* C13: a row is stored under the user who created it for as long as it    *)
(* exists; a list query returns only rows the querying user created; and   *)
(* an update or delete request leaves every row that another user created  *)
(* exactly as it was.                                                      *)
C13_OwnershipIsolation ==
    /\ \A r \in brain_dumps : r.user_id = creator[r.id]
    /\ lastCall.op = "select" =>
         \A r \in lastCall.rows : creator[r.id] = lastCall.user
    /\ lastCall.op \in {"update", "delete"} =>
         \A r \in lastCall.pre :
            creator[r.id] # lastCall.user => r \in brain_dumps

(* A user who has a row has asked to delete a row that another user       *)
(* created and completed, and the row is still stored.                     *)
C13_Witness ==
    /\ lastCall.op = "delete"
    /\ \E r \in brain_dumps :
        /\ r.id = lastCall.id
        /\ creator[r.id] # lastCall.user
        /\ r.completed
    /\ \E r \in brain_dumps : creator[r.id] = lastCall.user

CreateDone == lastCall.op = "create"

(* The steps of create-paypal-subscription other than the product request  *)
(* all succeeded.                                                          *)
CreateStepsOk(f) == f \subseteq {"product"}

C18_NoDuplicateIds ==
    \A s \in Sessions :
        \A i, j \in DOMAIN view[s].list :
            view[s].list[i].id = view[s].list[j].id => i = j

(* The dashboard has handled an INSERT event for a dump that its list      *)
(* already held (the load had returned it), and the list holds it once.    *)
C18_Witness ==
    \E s \in Sessions :
        /\ view[s].page = "Index"
        /\ view[s].load = "done"
        /\ view[s].lastEvent = [type |-> "INSERT", held |-> TRUE]
        /\ Len(view[s].list) = 1

(* The step in which a write handler resumes after a response with error *)
FailedWriteHandled(s) ==
    /\ view[s].pending # NoRequest
    /\ ~view[s].pending.ok
    /\ view'[s].pending = NoRequest

(* C19: when the table answers a toggle, edit or delete with an error, the *)
(* handler shows an error notification and leaves the local list as it is. *)
C19_FailedWriteNotified ==
    [][\A s \in Sessions :
          FailedWriteHandled(s) =>
              /\ view'[s].toast = "error"
              /\ view'[s].list = view[s].list]_vars

(* C20: no failure of a service call escapes its page as an unhandled      *)
(* rejection.                                                              *)
C20_NothingEscapes ==
    \A s \in Sessions : ~view[s].unhandled

(* C21: per mount of the payment-success page verifyPayPalSubscription is  *)
(* invoked at most once, and not before PAYMENT_VERIFICATION_DELAY has     *)
(* passed since the page had its user and the subscription id of the url,  *)
(* however many times the effect ran.                                      *)
C21_VerifyOncePerMount ==
    ui.page = "PaymentSuccess" =>
        /\ ui.calls <= 1
        /\ ui.calls = 1 =>
              /\ getSubscriptionId(ui.url) # NULL
              /\ ui.calledAt >= ui.mountedAt + PAYMENT_VERIFICATION_DELAY

(* The effect ran twice, the first timeout verified and the second one     *)
(* returned at the guard.                                                  *)
C21_Witness ==
    /\ ui.page = "PaymentSuccess"
    /\ ui.effects = 2
    /\ ui.calls = 1
    /\ ui.skipped >= 1

(* C29: the payment-success page shows SUCCESS only when the               *)
(* verify-paypal-subscription call succeeded and mapped the subscription   *)
(* to premium; after a failed call or a remote status other than ACTIVE it *)
(* does not show SUCCESS.                                                  *)
C29_SuccessOnlyWhenPremium ==
    (ui.page = "PaymentSuccess" /\ ui.verificationState = "success") =>
        /\ ui.response.status = 200
        /\ ui.response.subscription_status = "premium"

(* C30: the payment-success page leaves VERIFYING: once the effect has run *)
(* and no timeout and no verification request is outstanding, the mounted  *)
(* page shows SUCCESS or FAILED, with or without a subscription id in the  *)
(* url.                                                                    *)
C30_LeavesVerifying ==
    (/\ ui.page = "PaymentSuccess"
     /\ ui.mounted
     /\ ui.effects >= 1
     /\ ui.timers = {}
     /\ ui.request # "inflight") =>
        ui.verificationState \in {"success", "failed"}

(* C22: validation comes before any call: onSubmit is never called with an *)
(* empty or whitespace-only text, and signUp is never called while the     *)
(* terms are unaccepted or the password and its confirmation differ.       *)
C22_ValidatedBeforeCall ==
    ui.page = "forms" =>
        /\ ui.onSubmit.called =>
              /\ ui.onSubmit.text # <<>>
              /\ \E i \in 1..Len(ui.onSubmit.text) : ui.onSubmit.text[i] \notin Whitespace
        /\ ui.signUp.called =>
              /\ ui.signUp.accepted
              /\ ui.signUp.password = ui.signUp.confirm

(* Both calls were made, and a later sign-up attempt with differing        *)
(* passwords was refused.                                                  *)
C22_Witness ==
    /\ ui.page = "forms"
    /\ ui.onSubmit.called
    /\ ui.onSubmit.text = <<"a">>
    /\ ui.signUp.called
    /\ ui.password # ui.confirm
    /\ ui.toast = "Password mismatch"

(* C23: the quota gate of handleSubmit. When the handler leaves its check  *)
(* and check_daily_limit gives can_dump = false for the user, the handler  *)
(* ends there: no gateway call, no row, no increment. A premium user's     *)
(* handler always goes on from the check to the gateway.                   *)
C23_QuotaGate ==
    [][\A s \in Sessions :
         (sess[s].pc = "check" /\ sess'[s] # sess[s]) =>
            LET u == Submitter(s)
                res == limit_result(reset_daily_dump_count(profiles, today), u, today)
            IN /\ ~res.can_dump =>
                     /\ sess'[s].pc = "idle"
                     /\ brain_dumps' = brain_dumps
                     /\ EffectiveCount(profiles', u, today) = EffectiveCount(profiles, u, today)
               /\ fetchSubscription(profiles, u) = "premium" =>
                     sess'[s].pc = NextStep("check")]_vars

(* The batches accepted for u on the current date: those the counter held  *)
(* at the start, and those of the sessions since                           *)
Accepted(u) ==
    incs[u] + (IF Submitter("s1") = u THEN sess["s1"].accepted ELSE 0)
            + (IF Submitter("s2") = u THEN sess["s2"].accepted ELSE 0)

SessionsOf(u) == {s \in Sessions : Submitter(s) = u}

C25_PremiumOnlyByVerify ==
    [][\A u \in Users :
         /\ (fetchSubscription(profiles, u) # "premium"
             /\ fetchSubscription(profiles', u) = "premium") =>
                /\ lastCall'.op = "verify"
                /\ lastCall'.user = u
                /\ lastCall'.pre = profiles
                /\ lastCall'.res.subscription_status = "premium"
         /\ today' = today =>
                EffectiveCount(profiles', u, today) >= EffectiveCount(profiles, u, today)]_vars

(* C26: a verify-paypal-subscription call makes its caller premium only    *)
(* for a subscription that create-paypal-subscription created for that     *)
(* caller, whose profile row then holds a subscription id, and it changes  *)
(* no other user's profile.                                                *)
C26_VerifyOwnSubscriptionOnly ==
    [][(lastCall'.op = "verify" /\ lastCall'.pre = profiles /\ profiles' # profiles) =>
          LET u == lastCall'.user
          IN /\ \A v \in Users \ {u} :
                    /\ HasRow(profiles', v) = HasRow(profiles, v)
                    /\ HasRow(profiles, v) => profiles'[v] = profiles[v]
             /\ profiles'[u].subscription_status = "premium" =>
                    /\ HasRow(profiles, u)
                    /\ profiles[u].paypal_subscription_id # NULL]_vars

(* The row with the id as the table B holds it *)
ServerRow(B, id) == CHOOSE r \in B : r.id = id

(* The dump with the id as the list holds it *)
LocalDump(list, id) == list[CHOOSE i \in DOMAIN list : list[i].id = id]

(* The list and the table B agree on the completion flag of the row *)
FlagInSync(list, B, id) ==
    (id \in Ids(list) /\ \E r \in B : r.id = id) =>
        LocalDump(list, id).completed = ServerRow(B, id).completed

(* C27: on the dashboard, with the list loaded, when the response of a     *)
(* successful toggle is processed after the UPDATE event of the row, or    *)
(* the UPDATE event after the response, the local completion flag equals   *)
(* the stored one afterwards.                                              *)
C27_ToggleConverges ==
    [][\A s \in Sessions :
         (view[s].page = "Index" /\ view[s].load = "done" /\ events'[s] = <<>>) =>
            /\ (/\ view[s].pending # NoRequest
                /\ view[s].pending.kind = "toggle"
                /\ view[s].pending.ok
                /\ view'[s].pending = NoRequest) =>
                    FlagInSync(view'[s].list, brain_dumps', view[s].pending.id)
            /\ (/\ view[s].pending = NoRequest
                /\ events[s] # <<>>
                /\ Head(events[s]).type = "UPDATE") =>
                    FlagInSync(view'[s].list, brain_dumps', Head(events[s]).dump.id)]_vars

(* C28: a dashboard session without failed requests whose load and events  *)
(* have all been processed, and which has no write in flight, lists        *)
(* exactly the ids of its user's rows.                                     *)
C28_ListConverges ==
    \A s \in Sessions :
        (/\ view[s].page = "Index"
         /\ ~view[s].failed
         /\ view[s].load = "done"
         /\ events[s] = <<>>
         /\ view[s].pending = NoRequest) =>
            Ids(view[s].list) = {r.id : r \in SelectRows(SessionUser(s), brain_dumps)}

====
